---- MODULE Spec2Model ----
(***************************************************************************)
(* Model of atomist/sdm-pack-build: the build-identifier allocator of      *)
(* executeBuild (lib/support/build/executeBuild.ts) and the correlator of  *)
(* build notifications, Build.handleBuildCompleteEvent (lib/Build.ts) with *)
(* setBuildContext (lib/support/build/executeCheckBuild.ts).               *)
(*                                                                         *)
(* lib/Build.ts holds three revisions of the Build goal class:             *)
(*   revision 1, lines   1-160: handler without any guard;                 *)
(*   revision 2, lines 162-326: handler with the provider === "sdm" guard; *)
(*   revision 3, lines 328-549: handler with the fulfillment-method guard  *)
(*                              and displayBuildLogFailure.                *)
(* The variable rev names the revision a behaviour runs; it never changes. *)
(*                                                                         *)
(* lib/support/build/executeBuild.ts holds two revisions of executeBuild:  *)
(*   revision 1, lines   1-196: tag through createTagForStatus;            *)
(*   revision 2, lines 198-407: tag through createGitTag, and linkArtifact *)
(*                              after the tag.                             *)
(* The variable ebRev names the one a behaviour runs; it never changes.    *)
(***************************************************************************)
EXTENDS Integers, Sequences, FiniteSets, TLC

(***************************************************************************)
(* Bounds of the model.                                                    *)
(***************************************************************************)
\* concurrent executions of executeBuild
NumExecs == 2
\* allocations per repository in one behaviour
MaxAllocs == 3
\* registered build listeners of the goal
NumListeners == 2
\* external URLs kept on one goal instance
MaxUrls == 3

Execs == 1..NumExecs
Listeners == 1..NumListeners
Revisions == {1, 2, 3}
ExecuteBuildRevisions == {1, 2}

(***************************************************************************)
(* Repositories, commits and the goal instances on them.                   *)
(***************************************************************************)
Repos == {"r1", "r2"}

\* commits: a, b, c carry a build goal fulfilled by a builder (executeBuild);
\* x carries a build goal fulfilled by an external tool; y carries no build goal.
Shas == {"a", "b", "c", "x", "y"}

RepoOf(sha) ==
    CASE sha = "a" -> "r1"
      [] sha = "b" -> "r1"
      [] sha = "c" -> "r2"
      [] sha = "x" -> "r2"
      [] sha = "y" -> "r1"

BranchOf(sha) ==
    CASE sha = "a" -> "master"
      [] sha = "b" -> "feature"
      [] sha = "c" -> "master"
      [] sha = "x" -> "master"
      [] sha = "y" -> "master"

\* the goal instances the direct executor runs
DirectShas == {"a", "b", "c"}
\* the commits build notifications are about
EventShas == {"a", "x", "y"}

\* the identifier persisted for the repository before the first allocation of
\* the behaviour: r1 has never been built, r2 has been built eight times
InitialIdentifiers(r) ==
    IF r = "r1" THEN <<>> ELSE <<[identifier |-> <<8>>, repo |-> r]>>

NoGoal == [state |-> "none"]
None == [result |-> "none"]

(***************************************************************************)
(* Decimal strings: a build identifier is stored as a string of digits.    *)
(***************************************************************************)
RECURSIVE ToNumber(_)
\* unary plus on a string of decimal digits: +"12" = 12, +"" = 0
ToNumber(s) ==
    IF Len(s) = 0 THEN 0
    ELSE 10 * ToNumber(SubSeq(s, 1, Len(s) - 1)) + s[Len(s)]

RECURSIVE NumberToString(_)
\* Number.prototype.toString of a non-negative integer: no leading zeros
NumberToString(n) ==
    IF n < 10 THEN <<n>>
    ELSE NumberToString(n \div 10) \o <<n % 10>>

VARIABLES
    rev,          \* revision of lib/Build.ts in effect
    ebRev,        \* revision of lib/support/build/executeBuild.ts in effect
    idStore,      \* persisted SdmBuildIdentifier records, per repository
    pc,           \* position of each execution of executeBuild
    goalOf,       \* goal event (commit) an execution was invoked with
    queryResult,  \* result.SdmBuildIdentifier an execution's query returned
    buildNumber,  \* buildNumber obtainBuildIdentifier returned to executeBuild
    count,        \* history: allocations of the behaviour, per repository
    qCount,       \* history: count of the repository when the execution queried
    lastIssued,   \* history: the number the latest allocation returned (at first,
                  \*          the one persisted before the behaviour)
    maxBefore,    \* history: the largest number returned before the latest one
    overlapped,   \* history: two allocations of the repository have overlapped
    lastBuild,    \* history: the latest execution of executeBuild that ended,
                  \*          what it called in order, and what its caller got
    listened,     \* history: the latest invocation of buildAwareBuildListener
    lastCheck,    \* history: the latest execution of executeCheckBuild
    definition,   \* the definition of the Build goal (this.definition)
    fulfillments, \* the fulfillments added to the Build goal, in order
    goals,        \* persisted goal instance on each commit
    lastDone      \* history: the latest notification handled, and its result

allocVars == <<idStore, pc, goalOf, queryResult, buildNumber, count, qCount,
               lastIssued, maxBefore, overlapped>>
buildVars == <<lastBuild>>
corrVars == <<goals, lastDone>>
withVars == <<definition, fulfillments>>
vars == <<listened, lastCheck, definition, fulfillments, rev, ebRev, idStore, pc, goalOf, queryResult, buildNumber, count, qCount,
          lastIssued, maxBefore, overlapped, lastBuild, goals, lastDone>>

(***************************************************************************)
(* obtainBuildIdentifier                                                   *)
(***************************************************************************)
\* the SdmBuildIdentifierForRepo query for the goal's repository
querySdmBuildIdentifierForRepo(r) == idStore[r]

\* the first record found, when the query returned several
buildIdentifierOfFirst(result, r) ==
    IF Len(result) >= 1
    THEN result[1]
    ELSE [identifier |-> <<0>>, repo |-> r]

\* the record to bump: the single record found, else a fresh "0" record
buildIdentifierOf(result, r) ==
    IF Len(result) = 1
    THEN result[1]
    ELSE [identifier |-> <<0>>, repo |-> r]

\* a plausible slip: '+' without the unary plus concatenates, "0" + 1 = "01"
bumpedByConcatenation(buildIdentifier) ==
    [buildIdentifier EXCEPT !.identifier = @ \o <<1>>]

bumpedBuildIdentifier(buildIdentifier) ==
    [buildIdentifier EXCEPT !.identifier = NumberToString(ToNumber(@) + 1)]

\* a compare-and-swap allocator would read the store again when it persists
resultReadAtSend(e) == idStore[RepoOf(goalOf[e])]

\* the result the bump is computed from: the one read before the await
resultBumped(e) == queryResult[e]

\* a store with one counter for all repositories
sendToEveryRepo(store, bumped) ==
    [r \in DOMAIN store |-> <<[bumped EXCEPT !.repo = r]>>]

\* messageClient.send of the bumped record: the store keeps the last record
\* persisted for the repository
sendSdmBuildIdentifier(store, bumped) ==
    [store EXCEPT ![bumped.repo] = <<bumped>>]

Max(a, b) == IF a > b THEN a ELSE b

\* executions of the repository that have queried and not yet persisted
InFlight(r) == {e \in Execs : pc[e] = "queried" /\ RepoOf(goalOf[e]) = r}

\* executeBuild is invoked for the goal on commit sha; obtainBuildIdentifier
\* runs its query (executeBuild.ts 116-126)
obtainBuildIdentifier_query(e, sha) ==
    /\ pc[e] # "queried"
    /\ count[RepoOf(sha)] + Cardinality(InFlight(RepoOf(sha))) < MaxAllocs
    /\ pc' = [pc EXCEPT ![e] = "queried"]
    /\ goalOf' = [goalOf EXCEPT ![e] = sha]
    /\ queryResult' = [queryResult EXCEPT ![e] = querySdmBuildIdentifierForRepo(RepoOf(sha))]
    /\ buildNumber' = [buildNumber EXCEPT ![e] = <<>>]
    /\ qCount' = [qCount EXCEPT ![e] = count[RepoOf(sha)]]
    /\ overlapped' = [overlapped EXCEPT ![RepoOf(sha)] = @ \/ InFlight(RepoOf(sha)) # {}]
    /\ UNCHANGED <<idStore, count, lastIssued, maxBefore>>
    /\ UNCHANGED <<listened, lastCheck, definition, fulfillments, rev, ebRev, lastBuild, goals, lastDone>>

\* obtainBuildIdentifier bumps what it read, persists it and returns the
\* identifier (executeBuild.ts 128-147)
obtainBuildIdentifier_send(e) ==
    /\ pc[e] = "queried"
    /\ LET r == RepoOf(goalOf[e])
           bumped == bumpedBuildIdentifier(buildIdentifierOf(resultBumped(e), r))
       IN /\ idStore' = sendSdmBuildIdentifier(idStore, bumped)
          /\ buildNumber' = [buildNumber EXCEPT ![e] = bumped.identifier]
          /\ count' = [count EXCEPT ![r] = @ + 1]
          /\ lastIssued' = [lastIssued EXCEPT ![r] = bumped.identifier]
          /\ maxBefore' = [maxBefore EXCEPT ![r] = Max(@, ToNumber(lastIssued[r]))]
    /\ pc' = [pc EXCEPT ![e] = "allocated"]
    /\ UNCHANGED <<goalOf, queryResult, qCount, overlapped>>
    /\ UNCHANGED <<listened, lastCheck, definition, fulfillments, rev, ebRev, lastBuild, goals, lastDone>>

NextAlloc ==
    \/ \E e \in Execs, sha \in DirectShas : obtainBuildIdentifier_query(e, sha)
    \/ \E e \in Execs : obtainBuildIdentifier_send(e)

InitAlloc ==
    /\ idStore = [r \in Repos |-> InitialIdentifiers(r)]
    /\ pc = [e \in Execs |-> "idle"]
    /\ goalOf = [e \in Execs |-> "a"]
    /\ queryResult = [e \in Execs |-> <<>>]
    /\ buildNumber = [e \in Execs |-> <<>>]
    /\ count = [r \in Repos |-> 0]
    /\ qCount = [e \in Execs |-> 0]
    /\ lastIssued = [r \in Repos |->
                        IF Len(InitialIdentifiers(r)) = 1
                        THEN InitialIdentifiers(r)[1].identifier ELSE <<>>]
    /\ maxBefore = [r \in Repos |-> 0]
    /\ overlapped = [r \in Repos |-> FALSE]

(***************************************************************************)
(* executeBuild: what follows the allocation                               *)
(***************************************************************************)
\* commands of one spawnBuilder
MaxCommands == 2

\* lastBuild before any execution has ended
NoBuild == [ended |-> FALSE]

\* error messages, as lists of the strings they are concatenated from
QueryError == <<"graph query failed">>
SendError == <<"message send failed">>
WebhookError == <<"webhook post failed">>
SetupError == <<"setup failed">>
VersionError == <<"version lookup failed">>
TagError == <<"tag creation failed">>
TypeErrorOfUndefined == <<"Cannot read property 'error' of undefined">>
ArtifactDeprecated ==
    <<"Artifact concept deprecated. Use project listeners to store artifacts after goals.">>

\* what the caller of executeBuild gets: a returned result, or a rejection
Success == [kind |-> "returned", code |-> 0, message |-> <<>>]
failure(err) == [kind |-> "returned", code |-> 1, message |-> err]
ErrorResult(br) == [kind |-> "returned", code |-> 1, message |-> br.message]
Rejected(err) == [kind |-> "rejected", code |-> 0, message |-> err]

\* SpawnLogResult: error is "" when the command finished without error;
\* defined is FALSE for the value undefined
UndefinedResult == [defined |-> FALSE, error |-> "", message |-> <<>>]
OkResult == [defined |-> TRUE, error |-> "", message |-> <<>>]
FailedResult == [defined |-> TRUE, error |-> "exit 1", message |-> <<"exit 1">>]
SpawnLogResults == {OkResult, FailedResult}

DeploymentUnits == {"", "app.jar"}

\* BuildInProgress
RunningBuild(br, file) == [buildResult |-> br, deploymentUnitFile |-> file]

\* the results spawnLog gives for the commands of a spawnBuilder, in order
CommandResults ==
    UNION {[1..n -> SpawnLogResults] : n \in 0..MaxCommands}

\* index of the first command whose result has an error, 0 when none has
FirstError(results) ==
    IF \E i \in 1..Len(results) : results[i].error # ""
    THEN CHOOSE i \in 1..Len(results) :
            /\ results[i].error # ""
            /\ \A j \in 1..(i - 1) : results[j].error = ""
    ELSE 0

RECURSIVE runEveryCommand(_, _)
\* a loop without the throw: every command from the i-th on is run
runEveryCommand(results, i) ==
    IF i > Len(results) THEN <<>>
    ELSE <<[command |-> i, result |-> results[i]]>> \o runEveryCommand(results, i + 1)

RECURSIVE runCommands(_, _)
\* the loop over the commands (spawnBuilder.ts 129-137) from the i-th on:
\* the commands executed, in order, each with its result
runCommands(results, i) ==
    IF i > Len(results) THEN <<>>
    ELSE IF results[i].error # "" THEN <<[command |-> i, result |-> results[i]]>>
    ELSE <<[command |-> i, result |-> results[i]]>> \o runCommands(results, i + 1)

\* spawnBuilder (spawnBuilder.ts 94-143): the commands run in order; the
\* first result with an error is thrown, else the last result is returned
spawnBuilder(results, deploymentUnit) ==
    LET f == FirstError(results)
    IN IF f # 0
       THEN [via |-> "spawnBuilder", threw |-> TRUE,
             err |-> <<"Build failure: ", results[f].error>>,
             rb |-> RunningBuild(UndefinedResult, ""), ran |-> f,
             given |-> Len(results), commands |-> runCommands(results, 1)]
       ELSE [via |-> "spawnBuilder", threw |-> FALSE, err |-> <<>>,
             rb |-> RunningBuild(IF Len(results) = 0 THEN UndefinedResult
                                 ELSE results[Len(results)],
                                 deploymentUnit),
             ran |-> Len(results),
             given |-> Len(results), commands |-> runCommands(results, 1)]

\* a builder of the SDM's own: it throws, or returns a BuildInProgress whose
\* buildResult is missing, has an error, or has none
CustomBuilds ==
    {[via |-> "custom", threw |-> TRUE, err |-> SetupError,
      rb |-> RunningBuild(UndefinedResult, ""), ran |-> 0,
      given |-> 0, commands |-> <<>>]}
    \cup {[via |-> "custom", threw |-> FALSE, err |-> <<>>, rb |-> rb, ran |-> 0,
           given |-> 0, commands |-> <<>>] :
            rb \in {RunningBuild(UndefinedResult, ""),
                    RunningBuild([defined |-> TRUE, error |-> "compile failed",
                                  message |-> <<"compile failed">>], ""),
                    RunningBuild(OkResult, ""),
                    RunningBuild(OkResult, "app.jar")}}

\* what the call builder(goalInvocation, buildNumber) can do
BuilderOutcomes ==
    CustomBuilds
    \cup {spawnBuilder(results, d) : results \in CommandResults, d \in DeploymentUnits}

\* a boolean of the configuration: set to true, set to false, or not set
Settings == {"unset", "true", "false"}

\* a configuration value that is read only when set to true
configurationValueOrFalse(setting, default) == setting = "true"

\* configurationValue<boolean>(path, default): the default when not set
configurationValue(setting, default) ==
    IF setting = "unset" THEN default ELSE setting = "true"

\* what the collaborators of one execution do: the webhook posts, the
\* builder, the configuration, the version store and the tagging
AllEnvs ==
    [startedOk : BOOLEAN, builder : BuilderOutcomes, finalOk : BOOLEAN,
     tagSetting : Settings, localMode : BOOLEAN, versionOk : BOOLEAN,
     version : {"", "v1.2.3"}, tagOk : BOOLEAN, imageLinkSetting : Settings]

\* sdm.build.tag and sdm.build.imageLink as the execution reads them
tagEnabled(env) == configurationValue(env.tagSetting, TRUE)
imageLink(env) == configurationValue(env.imageLinkSetting, TRUE)

\* the execution posts passed and the post resolves
PassedPosted(env) ==
    /\ env.startedOk
    /\ ~env.builder.threw
    /\ env.builder.rb.buildResult.defined
    /\ env.builder.rb.buildResult.error = ""
    /\ env.finalOk

\* the execution reaches the read of the stored version
VersionRead(env) == PassedPosted(env) /\ tagEnabled(env) /\ ~env.localMode

\* the execution reaches the creation of the tag
TagAttempted(env) == VersionRead(env) /\ env.versionOk /\ env.version # ""

\* the execution reaches the read of sdm.build.imageLink (revision 2)
LinkReached(env) ==
    /\ PassedPosted(env)
    /\ (VersionRead(env) => env.versionOk)
    /\ (TagAttempted(env) => env.tagOk)
    /\ env.builder.rb.deploymentUnitFile # ""

\* a collaborator the execution never calls is given one fixed behaviour
ReadOnlyWhenReached(env) ==
    /\ ~env.startedOk => env.builder = spawnBuilder(<<OkResult>>, "")
    /\ ~PassedPosted(env) => env.tagSetting = "unset"
    /\ ~(PassedPosted(env) /\ tagEnabled(env)) => ~env.localMode
    /\ ~VersionRead(env) => env.versionOk
    /\ ~(VersionRead(env) /\ env.versionOk) => env.version = ""
    /\ ~TagAttempted(env) => env.tagOk
    /\ ~LinkReached(env) => env.imageLinkSetting = "unset"

Envs == {env \in AllEnvs : ReadOnlyWhenReached(env)}

\* one call of a collaborator, its argument and whether it resolved
Step(kind, ok, data) == [kind |-> kind, ok |-> ok, data |-> data]

\* a build event that would leave out the build number
updateBuildStatusUnnumbered(status, sha, buildNo) ==
    [name |-> <<"Build #">>,
     number |-> 0,
     status |-> status,
     commit |-> sha,
     branch |-> BranchOf(sha),
     provider |-> "sdm"]

\* updateBuildStatus (executeBuild.ts 174-196): the build event posted
updateBuildStatus(status, sha, buildNo) ==
    [name |-> <<"Build #", buildNo>>,
     number |-> ToNumber(buildNo),
     status |-> status,
     commit |-> sha,
     branch |-> BranchOf(sha),
     provider |-> "sdm"]

\* the tag name of createBuildTag (executeBuild.ts 168 and 372)
tagName(version, buildNo) == <<version, "+sdm.", buildNo>>

\* a; rest without the await: rest runs whether or not a resolves
notAwaited(a, err, rest) ==
    [log |-> <<a>> \o rest.log, threw |-> rest.threw, err |-> rest.err]

\* await a; rest, inside a try: rest runs only when a resolved, and what a
\* rejected with is thrown
andThen(a, err, rest) ==
    IF a.ok THEN [log |-> <<a>> \o rest.log, threw |-> rest.threw, err |-> rest.err]
    ELSE [log |-> <<a>>, threw |-> TRUE, err |-> err]

\* nothing more to call
Done == [log |-> <<>>, threw |-> FALSE, err |-> <<>>]

\* createBuildTag (executeBuild.ts 150-172 and 352-377): its calls, and
\* whether it threw
createBuildTag(revision, sha, buildNo, env) ==
    LET cfg == Step("configurationValue", TRUE,
                    [key |-> "sdm.build.tag", setting |-> env.tagSetting,
                     value |-> tagEnabled(env)])
        loc == Step("isInLocalMode", TRUE, [value |-> env.localMode])
        ver == Step("readSdmVersion", env.versionOk,
                    [sha |-> sha, branch |-> BranchOf(sha),
                     version |-> IF env.versionOk THEN env.version ELSE ""])
        tag == Step("createTag", env.tagOk,
                    [via |-> IF revision = 1 THEN "createTagForStatus" ELSE "createGitTag",
                     sha |-> sha,
                     message |-> "Tag created by SDM",
                     tag |-> tagName(env.version, buildNo)])
    IN andThen(cfg, <<>>,
         IF ~tagEnabled(env) THEN Done
         ELSE andThen(loc, <<>>,
                IF env.localMode THEN Done
                ELSE andThen(ver, VersionError,
                       IF env.version = "" THEN Done
                       ELSE andThen(tag, TagError, Done))))

\* linkArtifact (executeBuild.ts 379-382) always throws
linkArtifact(rb) == Step("linkArtifact", FALSE, [file |-> rb.deploymentUnitFile])

\* the link of the artifact after the tag (executeBuild.ts 306-309)
linkIfConfigured(revision, rb, env) ==
    IF revision = 2 /\ rb.deploymentUnitFile # ""
    THEN andThen(Step("configurationValue", TRUE,
                      [key |-> "sdm.build.imageLink", setting |-> env.imageLinkSetting,
                       value |-> imageLink(env)]),
                 <<>>,
                 IF imageLink(env)
                 THEN andThen(linkArtifact(rb), ArtifactDeprecated, Done)
                 ELSE Done)
    ELSE Done

\* a; b, inside a try: b runs only when a did not throw
sequenced(a, b) ==
    IF a.threw THEN a
    ELSE [log |-> a.log \o b.log, threw |-> b.threw, err |-> b.err]

\* the try block of onExit (executeBuild.ts 105-110 and 303-312)
onExitTry(revision, sha, success, rb, buildNo, env) ==
    IF success
    THEN andThen(Step("postWebhook", env.finalOk,
                      updateBuildStatus("passed", sha, buildNo)),
                 WebhookError,
                 sequenced(createBuildTag(revision, sha, buildNo, env),
                           linkIfConfigured(revision, rb, env)))
    ELSE andThen(Step("postWebhook", env.finalOk,
                      updateBuildStatus("failed", sha, buildNo)),
                 WebhookError, Done)

\* onExit without its try and catch: what the block throws escapes
notCaught(tried) == tried

\* the catch of onExit (executeBuild.ts 111-113 and 313-315): whatever
\* the block threw is logged as a warning and dropped
caught(tried) == [log |-> tried.log, threw |-> FALSE, err |-> <<>>]

\* onExit (executeBuild.ts 99-114 and 297-316)
onExit(revision, sha, success, rb, buildNo, env) ==
    caught(onExitTry(revision, sha, success, rb, buildNo, env))

\* br.error never throws: an undefined result read as one without error
neverThrowsOnRead(br) == FALSE

\* br.error (executeBuild.ts 79 and 277) throws when br is undefined
throwsOnRead(br) == ~br.defined

\* the result returned at executeBuild.ts 81 and 279, always Success
alwaysSuccess(br) == Success

\* the result returned at executeBuild.ts 81 and 279
resultOf(br) == IF br.error # "" THEN ErrorResult(br) ELSE Success

\* executeBuild rejecting at executeBuild.ts 71 and 269, as if the
\* allocation were inside the try
failedWithoutNumber(sha, err) ==
    [log |-> <<Step("postWebhook", TRUE, updateBuildStatus("failed", sha, <<>>))>>,
     result |-> failure(err)]

\* obtainBuildIdentifier rejects (executeBuild.ts 71 and 269): the await is
\* outside the try, executeBuild rejects with the same error
rejectedWithoutNumber(sha, err) == [log |-> <<>>, result |-> Rejected(err)]

\* executeBuild after the allocation (executeBuild.ts 73-95 and 271-293):
\* its calls in order, and what its caller gets
executeBuild(revision, sha, buildNo, env) ==
    LET started == Step("postWebhook", env.startedOk,
                        updateBuildStatus("started", sha, buildNo))
        built == Step("builder", ~env.builder.threw,
                      [buildNo |-> buildNo, outcome |-> env.builder])
        failedOnStart == Step("postWebhook", env.finalOk,
                              updateBuildStatus("failed", sha, buildNo))
        \* the outer catch: the build failed before even starting
        onStartFailure(log, err) ==
            [log |-> log \o <<failedOnStart>>,
             result |-> IF env.finalOk THEN failure(err) ELSE Rejected(WebhookError)]
        rb == env.builder.rb
        br == rb.buildResult
        \* the inner catch: the build failed on run
        onRunFailure(log, err) ==
            LET exit == onExit(revision, sha, FALSE, rb, buildNo, env)
            IN IF exit.threw THEN onStartFailure(log \o exit.log, exit.err)
               ELSE [log |-> log \o exit.log, result |-> failure(err)]
    IN IF ~env.startedOk THEN onStartFailure(<<started>>, WebhookError)
       ELSE IF env.builder.threw THEN onStartFailure(<<started, built>>, env.builder.err)
       ELSE IF throwsOnRead(br) THEN onRunFailure(<<started, built>>, TypeErrorOfUndefined)
       ELSE LET exit == onExit(revision, sha, br.error = "", rb, buildNo, env)
            IN IF exit.threw THEN onRunFailure(<<started, built>> \o exit.log, exit.err)
               ELSE [log |-> <<started, built>> \o exit.log, result |-> resultOf(br)]

\* how an execution ended
Ended(e, sha, allocated, buildNo, log, result) ==
    [ended |-> TRUE, exec |-> e, sha |-> sha, allocated |-> allocated,
     buildNumber |-> buildNo, log |-> log, result |-> result]

\* the query of obtainBuildIdentifier rejects (executeBuild.ts 118-126):
\* executeBuild rejects at line 71
obtainBuildIdentifier_queryFails(e, sha) ==
    /\ pc[e] = "idle"
    /\ LET out == rejectedWithoutNumber(sha, QueryError)
       IN lastBuild' = Ended(e, sha, FALSE, <<>>, out.log, out.result)
    /\ UNCHANGED <<listened, lastCheck, definition, fulfillments, rev, ebRev, idStore, pc, goalOf, queryResult, buildNumber, count,
                   qCount, lastIssued, maxBefore, overlapped, goals, lastDone>>

\* the send of obtainBuildIdentifier rejects (executeBuild.ts 146): nothing
\* is persisted and executeBuild rejects at line 71
obtainBuildIdentifier_sendFails(e) ==
    /\ pc[e] = "queried"
    /\ pc' = [pc EXCEPT ![e] = "idle"]
    /\ LET out == rejectedWithoutNumber(goalOf[e], SendError)
       IN lastBuild' = Ended(e, goalOf[e], FALSE, <<>>, out.log, out.result)
    /\ UNCHANGED <<listened, lastCheck, definition, fulfillments, rev, ebRev, idStore, goalOf, queryResult, buildNumber, count,
                   qCount, lastIssued, maxBefore, overlapped, goals, lastDone>>

\* an executeBuild that would not await obtainBuildIdentifier: it runs on
\* while the bumped identifier is still to be persisted
executeBuild_runUnallocated(e, env) ==
    /\ pc[e] = "queried"
    /\ LET out == executeBuild(ebRev, goalOf[e], buildNumber[e], env)
       IN lastBuild' = Ended(e, goalOf[e], TRUE, buildNumber[e], out.log, out.result)
    /\ pc' = [pc EXCEPT ![e] = "idle"]
    /\ UNCHANGED <<listened, lastCheck, definition, fulfillments, rev, ebRev, idStore, goalOf, queryResult, buildNumber, count,
                   qCount, lastIssued, maxBefore, overlapped, goals, lastDone>>

\* executeBuild runs from the started event to its return
executeBuild_run(e, env) ==
    /\ pc[e] = "allocated"
    /\ LET out == executeBuild(ebRev, goalOf[e], buildNumber[e], env)
       IN lastBuild' = Ended(e, goalOf[e], TRUE, buildNumber[e], out.log, out.result)
    /\ pc' = [pc EXCEPT ![e] = "idle"]
    /\ UNCHANGED <<listened, lastCheck, definition, fulfillments, rev, ebRev, idStore, goalOf, queryResult, buildNumber, count,
                   qCount, lastIssued, maxBefore, overlapped, goals, lastDone>>

\* the goal instances executeBuild is invoked for, all of repository r1
BuildShas == {"a", "b"}

\* what follows the allocation is per execution: one execution at a time is
\* followed here, the overlap of two allocations is the matter of SpecAlloc
BuildExecs == {1}

\* the records of r1 before the first allocation: none, one, or (an
\* inconsistent store) two
StoredBefore ==
    {<<>>,
     <<[identifier |-> <<3>>, repo |-> "r1"]>>,
     <<[identifier |-> <<5>>, repo |-> "r1"], [identifier |-> <<6>>, repo |-> "r1"]>>}

NextBuild ==
    \/ \E e \in BuildExecs, sha \in BuildShas :
          pc[e] = "idle" /\ obtainBuildIdentifier_query(e, sha)
    \/ \E e \in BuildExecs, sha \in BuildShas : obtainBuildIdentifier_queryFails(e, sha)
    \/ \E e \in BuildExecs : obtainBuildIdentifier_send(e)
    \/ \E e \in BuildExecs : obtainBuildIdentifier_sendFails(e)
    \/ \E e \in BuildExecs, env \in Envs : executeBuild_run(e, env)

(***************************************************************************)
(* spawnBuilder with a commandFile                                         *)
(***************************************************************************)
\* characters of a command file at most
MaxFileLen == 4

FileChars == {"m", "#", "\n"}

\* the file at options.commandFile in the project: absent, or its content
AbsentFile == [present |-> FALSE, content |-> <<>>]
ProjectFiles ==
    {AbsentFile} \cup
    {[present |-> TRUE, content |-> c] :
        c \in UNION {[1..n -> FileChars] : n \in 0..MaxFileLen}}

NotIterable == <<"commands is not iterable">>

RECURSIVE splitFrom(_, _, _)
\* content.split("\n") from position i on, current being the line begun
splitFrom(content, i, current) ==
    IF i > Len(content) THEN <<current>>
    ELSE IF content[i] = "\n" THEN <<current>> \o splitFrom(content, i + 1, <<>>)
    ELSE splitFrom(content, i + 1, Append(current, content[i]))

\* a loader that would take every line of the file for a command
loadEveryLine(file) ==
    IF ~file.present THEN [defined |-> FALSE, commands |-> <<>>]
    ELSE [defined |-> TRUE, commands |-> splitFrom(file.content, 1, <<>>)]

\* loadCommandsFromFile (spawnBuilder.ts 146-161): undefined without the
\* file, else its lines that are not empty and do not start with #
loadCommandsFromFile(file) ==
    IF ~file.present THEN [defined |-> FALSE, commands |-> <<>>]
    ELSE LET notEmpty(l) == l # <<>>
             noComment(l) == l[1] # "#"
         IN [defined |-> TRUE,
             commands |-> SelectSeq(SelectSeq(splitFrom(file.content, 1, <<>>),
                                              notEmpty),
                                    noComment)]

\* spawnBuilder with options.commandFile and no options.commands
\* (spawnBuilder.ts 106-141): iterating over undefined commands throws
spawnBuilderWithFile(file, results) ==
    LET loaded == loadCommandsFromFile(file)
    IN IF ~loaded.defined
       THEN [via |-> "spawnBuilder", threw |-> TRUE, err |-> NotIterable,
             rb |-> RunningBuild(UndefinedResult, ""), ran |-> 0,
             given |-> 0, commands |-> <<>>,
             file |-> file, loaded |-> <<>>]
       ELSE [file |-> file, loaded |-> loaded.commands] @@ spawnBuilder(results, "")

\* the webhook posts apart, the collaborators of an execution with a
\* command file behave as they do by default
FileEnv(startedOk, finalOk, builder) ==
    [startedOk |-> startedOk, builder |-> builder, finalOk |-> finalOk,
     tagSetting |-> "unset", localMode |-> FALSE, versionOk |-> TRUE,
     version |-> "v1.2.3", tagOk |-> TRUE, imageLinkSetting |-> "unset"]

\* executeBuild runs with a spawnBuilder that reads its commands from a
\* file; a behaviour follows one such execution
executeBuild_runWithFile(e, file, results, startedOk, finalOk) ==
    /\ lastBuild = NoBuild
    /\ executeBuild_run(e, FileEnv(startedOk, finalOk, spawnBuilderWithFile(file, results)))

NextFile ==
    \/ \E e \in BuildExecs, sha \in BuildShas :
          pc[e] = "idle" /\ obtainBuildIdentifier_query(e, sha)
    \/ \E e \in BuildExecs : obtainBuildIdentifier_send(e)
    \/ \E e \in BuildExecs, file \in ProjectFiles, startedOk, finalOk \in BOOLEAN :
          \E results \in [1..Len(loadCommandsFromFile(file).commands) -> SpawnLogResults] :
              executeBuild_runWithFile(e, file, results, startedOk, finalOk)

(***************************************************************************)
(* Build goal, registrations and goal instances                            *)
(***************************************************************************)
\* BuildGoal: the descriptions of the goal definition (Build.ts 151-160)
BuildGoal ==
    [uniqueName |-> "build",
     workingDescription |-> "Building",
     completedDescription |-> "Build successful",
     failedDescription |-> "Build failed",
     retryFeasible |-> TRUE]

\* a registration with a builder, and one with an external tool
BuilderRegistration == [builder |-> TRUE, externalTool |-> ""]
ExternalBuildRegistration == [builder |-> FALSE, externalTool |-> "travis"]

\* Build.with, revision 1 (Build.ts 79-98): both registrations are
\* implementations, run by the SDM itself
withRev1(registration) ==
    IF registration.builder
    THEN [method |-> "sdm", name |-> "builder", goalExecutor |-> "executeBuild"]
    ELSE [method |-> "sdm", name |-> registration.externalTool,
          goalExecutor |-> "executeCheckBuild"]

\* Build.with, revision 2 (Build.ts 249-265)
withRev2(registration) ==
    IF registration.builder
    THEN [method |-> "sdm", name |-> "builder", goalExecutor |-> "executeBuild"]
    ELSE [method |-> "sdm", name |-> registration.externalTool,
          goalExecutor |-> "executeCheckBuild"]

\* Build.with, revision 3 (Build.ts 420-435): an external tool is a side effect
withRev3(registration) ==
    IF registration.builder
    THEN [method |-> "sdm", name |-> "builder", goalExecutor |-> "executeBuild"]
    ELSE [method |-> "side-effect", name |-> registration.externalTool,
          goalExecutor |-> "none"]

withRegistration(r, registration) ==
    CASE r = 1 -> withRev1(registration)
      [] r = 2 -> withRev2(registration)
      [] r = 3 -> withRev3(registration)

\* what Build.with leaves in definition.retryFeasible: revision 1 clears it
\* for a registration without a builder (Build.ts 89), revisions 2 and 3
\* never assign it
retryFeasibleAfterWith(r, retryFeasible, registration) ==
    IF r = 1 /\ ~registration.builder THEN FALSE ELSE retryFeasible

\* registrations one Build goal takes at most
MaxRegistrations == 5

Registrations == {BuilderRegistration, ExternalBuildRegistration}

\* Build.with(registration): adds the fulfillment of the registration
Build_with(registration) ==
    /\ Len(fulfillments) < MaxRegistrations
    /\ fulfillments' = Append(fulfillments, withRegistration(rev, registration))
    /\ definition' = [definition EXCEPT !.retryFeasible =
                          retryFeasibleAfterWith(rev, @, registration)]
    /\ UNCHANGED <<rev, ebRev, listened, lastCheck>>
    /\ UNCHANGED <<allocVars, buildVars, corrVars>>

NextWith == \E registration \in Registrations : Build_with(registration)

\* new Build(): the definition of BuildGoal, no fulfillment yet
InitGoal ==
    /\ definition = [uniqueName |-> BuildGoal.uniqueName,
                     retryFeasible |-> BuildGoal.retryFeasible]
    /\ fulfillments = <<>>

\* the goal instance of a new goal set, as the orchestration engine stores it
RequestedGoal(fulfillment) ==
    [state |-> "requested",
     description |-> "Ready: build",
     externalUrls |-> <<>>,
     url |-> "",
     fulfillment |-> fulfillment]

InitialGoal(r, sha) ==
    CASE sha \in DirectShas -> RequestedGoal(withRegistration(r, BuilderRegistration))
      [] sha = "x" -> RequestedGoal(withRegistration(r, ExternalBuildRegistration))
      [] OTHER -> NoGoal

(***************************************************************************)
(* Build notifications and the status mapping                              *)
(***************************************************************************)
\* raw build statuses; "undefined" is an absent status
Statuses == {"started", "passed", "failed", "broken", "canceled", "error", "undefined"}
BuildUrls == {"", "http://x/log"}
Providers == {"sdm", "travis"}

Notifications ==
    [sha : EventShas, status : Statuses, buildUrl : BuildUrls, provider : Providers]

\* a plausible slip: "error" taken for a failure
buildStatusErrorIsFailure(buildStatus) ==
    CASE buildStatus = "passed" -> "success"
      [] buildStatus \in {"broken", "failed", "canceled", "error"} -> "failure"
      [] OTHER -> "in_process"

\* buildStatusToSdmGoalState (executeCheckBuild.ts 70-81)
buildStatusToSdmGoalState(buildStatus) ==
    CASE buildStatus = "passed" -> "success"
      [] buildStatus = "broken" -> "failure"
      [] buildStatus = "failed" -> "failure"
      [] buildStatus = "canceled" -> "failure"
      [] OTHER -> "in_process"

\* buildStatusToSdmGoalState of revision 3 (Build.ts 526-537)
buildStatusToSdmGoalStateRev3(buildStatus) ==
    CASE buildStatus = "passed" -> "success"
      [] buildStatus = "broken" -> "failure"
      [] buildStatus = "failed" -> "failure"
      [] buildStatus = "canceled" -> "failure"
      [] OTHER -> "in_process"

\* descriptionFromState over the three states the mapping yields
descriptionFromState(goal, state) ==
    CASE state = "in_process" -> goal.workingDescription
      [] state = "success" -> goal.completedDescription
      [] state = "failure" -> goal.failedDescription
      [] OTHER -> "Ready: build"

\* updateGoal: sets state and description, appends the external URLs, and
\* sets url when the update carries one
updateGoal(before, params) ==
    [before EXCEPT !.state = params.state,
                   !.description = params.description,
                   !.externalUrls = @ \o params.externalUrls,
                   !.url = IF params.url # "" THEN params.url ELSE @]

\* setBuildContext (executeCheckBuild.ts 56-68)
setBuildContext(goal, sdmGoal, state, url) ==
    LET newState == buildStatusToSdmGoalState(state)
    IN updateGoal(sdmGoal,
           [externalUrls |-> <<[label |-> "Build Log", url |-> url]>>,
            state |-> newState,
            description |-> descriptionFromState(goal, newState),
            url |-> ""])

\* setBuiltContext of revision 3 (Build.ts 512-524)
setBuiltContext(goal, sdmGoal, state, url) ==
    LET newState == buildStatusToSdmGoalStateRev3(state)
    IN updateGoal(sdmGoal,
           [externalUrls |-> <<>>,
            state |-> newState,
            description |-> descriptionFromState(goal, newState),
            url |-> url])

\* displayBuildLogFailure (Build.ts 488-506): fetches the log and reports it;
\* the fetch may fail
displayBuildLogFailure(build, fetchOk) ==
    IF build.buildUrl # ""
    THEN IF fetchOk THEN [report |-> "log", threw |-> FALSE]
                    ELSE [report |-> "none", threw |-> TRUE]
    ELSE [report |-> "no build log", threw |-> FALSE]

\* findSdmGoalOnCommit: the goal instance of this goal on the commit, if any
findSdmGoalOnCommit(sha) == goals[sha]

\* await Promise.all(goal.listeners.map(l => l(bli))): rejects when a listener does
listenersReject(outcomes) == \E l \in Listeners : outcomes[l] = "rejected"

\* listeners invoked only when a goal instance matches the commit
invokeListenersOfMatch(build, sdmGoal, outcomes) ==
    [l \in Listeners |->
        [build |-> build, times |-> IF sdmGoal = NoGoal THEN 0 ELSE 1]]

\* goal.listeners.map(l => l(bli)): each listener is called with the
\* invocation of this build, whatever the goal lookup returned
invokeListeners(build, sdmGoal, outcomes) ==
    [l \in Listeners |-> [build |-> build, times |-> 1]]

Outcome(goal, result, updated, report) ==
    [goal |-> goal, result |-> result, updated |-> updated, report |-> report]

\* handleBuildCompleteEvent, revision 1 (Build.ts 112-148)
handleBuildCompleteEventRev1(build, outcomes) ==
    LET sdmGoal == findSdmGoalOnCommit(build.sha)
    IN IF listenersReject(outcomes) THEN Outcome(sdmGoal, "Rejected", FALSE, "none")
       ELSE IF sdmGoal = NoGoal THEN Outcome(sdmGoal, "Success", FALSE, "none")
       ELSE Outcome(setBuildContext(BuildGoal, sdmGoal, build.status, build.buildUrl),
                    "Success", TRUE, "none")

\* handleBuildCompleteEvent, revision 2 (Build.ts 279-314)
handleBuildCompleteEventRev2(build, outcomes) ==
    LET sdmGoal == findSdmGoalOnCommit(build.sha)
    IN IF listenersReject(outcomes) THEN Outcome(sdmGoal, "Rejected", FALSE, "none")
       ELSE IF sdmGoal = NoGoal THEN Outcome(sdmGoal, "Success", FALSE, "none")
       ELSE IF build.provider = "sdm" THEN Outcome(sdmGoal, "Success", FALSE, "none")
       ELSE Outcome(setBuildContext(BuildGoal, sdmGoal, build.status, build.buildUrl),
                    "Success", TRUE, "none")

\* handleBuildCompleteEvent, revision 3 (Build.ts 446-485)
handleBuildCompleteEventRev3(build, outcomes, fetchOk) ==
    LET sdmGoal == findSdmGoalOnCommit(build.sha)
    IN IF listenersReject(outcomes) THEN Outcome(sdmGoal, "Rejected", FALSE, "none")
       ELSE IF sdmGoal = NoGoal THEN Outcome(sdmGoal, "Success", FALSE, "none")
       ELSE IF /\ sdmGoal.fulfillment.method # "side-effect"
               /\ sdmGoal.fulfillment.method # "other"
            THEN Outcome(sdmGoal, "Success", FALSE, "none")
       ELSE LET updated == setBuiltContext(BuildGoal, sdmGoal, build.status, build.buildUrl)
            IN IF build.status = "failed" /\ build.buildUrl # ""
               THEN LET shown == displayBuildLogFailure(build, fetchOk)
                    IN Outcome(updated, IF shown.threw THEN "Rejected" ELSE "Success",
                               TRUE, shown.report)
               ELSE Outcome(updated, "Success", TRUE, "none")

\* the handler of the OnBuildComplete subscription, in the revision in effect
handleBuildCompleteEvent(build, outcomes, fetchOk) ==
    \* a behaviour follows the notifications of one commit
    /\ lastDone # None => build.sha = lastDone.n.sha
    /\ IF goals[build.sha] = NoGoal THEN TRUE
       ELSE Len(goals[build.sha].externalUrls) < MaxUrls
    /\ LET out == CASE rev = 1 -> handleBuildCompleteEventRev1(build, outcomes)
                    [] rev = 2 -> handleBuildCompleteEventRev2(build, outcomes)
                    [] rev = 3 -> handleBuildCompleteEventRev3(build, outcomes, fetchOk)
       IN /\ goals' = [goals EXCEPT ![build.sha] = out.goal]
          /\ lastDone' = [n |-> build,
                          result |-> out.result,
                          updated |-> out.updated,
                          report |-> out.report,
                          listeners |-> invokeListeners(build,
                                            findSdmGoalOnCommit(build.sha), outcomes),
                          listenerFailed |-> listenersReject(outcomes)]
    /\ UNCHANGED <<listened, lastCheck, definition, fulfillments, rev, ebRev, idStore, pc, goalOf, queryResult, buildNumber, count,
                   qCount, lastIssued, maxBefore, overlapped, lastBuild>>

\* whether the handler reaches the fetch of the build log
fetchesLog(build) ==
    /\ rev = 3
    /\ goals[build.sha] # NoGoal
    /\ build.status = "failed"
    /\ build.buildUrl # ""

NextCorr ==
    \E build \in Notifications, outcomes \in [Listeners -> {"resolved", "rejected"}] :
        \E fetchOk \in (IF fetchesLog(build) THEN BOOLEAN ELSE {TRUE}) :
            handleBuildCompleteEvent(build, outcomes, fetchOk)

(***************************************************************************)
(* executeCheckBuild                                                       *)
(***************************************************************************)
\* builds the BuildForCommit query returns at most
MaxBuilds == 2

\* a build on the commit, as the query returns it
BuildsOnCommit == [status : Statuses, buildUrl : BuildUrls]

\* the results of the BuildForCommit query: the builds on the commit, in order
BuildForCommitResults == UNION {[1..n -> BuildsOnCommit] : n \in 0..MaxBuilds}

\* the two variants of executeCheckBuild: the one reading builds.Build[0]
\* and the one reading Commit[0].builds[0]
CheckBuildVariants == {"Build[0]", "Commit[0].builds[0]"}

\* an executor that would look at the build the query returns last
lastBuildOfCommit(variant, builds) ==
    IF Len(builds) > 0 THEN [found |-> TRUE, build |-> builds[Len(builds)]]
    ELSE [found |-> FALSE]

\* the build the executor looks at: the first of the query result, if any
firstBuild(variant, builds) ==
    IF Len(builds) > 0 THEN [found |-> TRUE, build |-> builds[1]]
    ELSE [found |-> FALSE]

\* executeCheckBuild (executeCheckBuild.ts 24-54, part_001 34-65): the
\* goal result it returns
executeCheckBuild(variant, builds) ==
    LET first == firstBuild(variant, builds)
    IN IF first.found
       THEN [externalUrls |-> <<[label |-> "Build Log", url |-> first.build.buildUrl]>>,
             state |-> buildStatusToSdmGoalState(first.build.status)]
       ELSE [externalUrls |-> <<>>, state |-> "in_process"]

NoCheck == [done |-> FALSE]

\* the executor runs for the externally fulfilled goal on commit x; a
\* behaviour follows one execution
executeCheckBuild_run(variant, builds) ==
    /\ rev # 3
    /\ ~lastCheck.done
    /\ lastCheck' = [done |-> TRUE, sha |-> "x", variant |-> variant,
                     builds |-> builds,
                     result |-> executeCheckBuild(variant, builds)]
    /\ UNCHANGED <<rev, ebRev, listened>>
    /\ UNCHANGED <<allocVars, buildVars, corrVars, withVars>>

NextCheck ==
    \E variant \in CheckBuildVariants, builds \in BuildForCommitResults :
        executeCheckBuild_run(variant, builds)

InitCheck == lastCheck = NoCheck

(***************************************************************************)
(* buildAwareBuildListener                                                 *)
(***************************************************************************)
\* words of a commit message at most
MaxWords == 3

BuildAwareMarker == "BuildAwareMarker"

\* commit messages: words, some of which may be the marker
CommitMessages == UNION {[1..n -> {"fix", BuildAwareMarker}] : n \in 0..MaxWords}

\* the builds a listener is invoked with
ListenedBuilds ==
    [message : CommitMessages, status : Statuses, buildUrl : BuildUrls]

\* a listener that would take every build for a build-aware one
includesAnything(message) == TRUE

\* message.includes(BuildAwareMarker)
includesMarker(message) == \E i \in 1..Len(message) : message[i] = BuildAwareMarker

\* message.replace(BuildAwareMarker, ""): the first occurrence is removed
replaceMarker(message) ==
    LET at == {k \in 1..Len(message) : message[k] = BuildAwareMarker}
    IN IF at = {} THEN message
       ELSE LET i == CHOOSE k \in at : \A j \in at : k <= j
            IN SubSeq(message, 1, i - 1) \o SubSeq(message, i + 1, Len(message))

\* buildAwareBuildListener (part_000 25-73): what it raises for a build
buildAwareBuildListener(build) ==
    IF ~includesMarker(build.message) THEN <<>>
    ELSE LET description == replaceMarker(build.message)
         IN CASE build.status = "started" -> <<>>
              [] build.status = "passed" ->
                     <<[kind |-> "raisePullRequest", title |-> description,
                        body |-> <<>>]>>
              [] build.status \in {"failed", "broken"} ->
                     <<[kind |-> "raiseIssue",
                        title |-> <<"Failed to">> \o description,
                        body |-> IF build.buildUrl # ""
                                 THEN <<"Build log", build.buildUrl>>
                                 ELSE <<"No build log available">>]>>
              [] OTHER -> <<>>

NotListened == [invoked |-> FALSE]

\* a Build goal invokes the listener with a build
buildAwareBuildListener_invoke(build) ==
    /\ listened' = [invoked |-> TRUE, build |-> build,
                    raised |-> buildAwareBuildListener(build)]
    /\ UNCHANGED <<rev, ebRev, lastCheck>>
    /\ UNCHANGED <<allocVars, buildVars, corrVars, withVars>>

NextAware == \E build \in ListenedBuilds : buildAwareBuildListener_invoke(build)

InitAware == listened = NotListened

InitCorr ==
    /\ goals = [sha \in Shas |-> InitialGoal(rev, sha)]
    /\ lastDone = None

InitBuild ==
    /\ rev = 1
    /\ ebRev \in ExecuteBuildRevisions
    /\ \E s \in StoredBefore :
          idStore = [r \in Repos |-> IF r = "r1" THEN s ELSE InitialIdentifiers(r)]
    /\ pc = [e \in Execs |-> "idle"]
    /\ goalOf = [e \in Execs |-> "a"]
    /\ queryResult = [e \in Execs |-> <<>>]
    /\ buildNumber = [e \in Execs |-> <<>>]
    /\ count = [r \in Repos |-> 0]
    /\ qCount = [e \in Execs |-> 0]
    /\ lastIssued = [r \in Repos |->
                        IF Len(idStore[r]) = 1 THEN idStore[r][1].identifier ELSE <<>>]
    /\ maxBefore = [r \in Repos |-> 0]
    /\ overlapped = [r \in Repos |-> FALSE]
    /\ lastBuild = NoBuild
    /\ InitGoal
    /\ InitCheck
    /\ InitAware
    /\ InitCorr

Init ==
    /\ rev \in Revisions
    /\ ebRev \in ExecuteBuildRevisions
    /\ InitAlloc
    /\ lastBuild = NoBuild
    /\ InitGoal
    /\ InitCheck
    /\ InitAware
    /\ InitCorr

\* the allocator is the same in both revisions of executeBuild.ts and reads
\* nothing of lib/Build.ts: one revision of each is enough
InitRev1 ==
    /\ Init
    /\ rev = 1
    /\ ebRev = 1

\* the allocator alone
SpecAlloc == InitRev1 /\ [][NextAlloc]_vars

\* the handler of lib/Build.ts calls nothing of executeBuild.ts
InitBuildRev1 ==
    /\ Init
    /\ ebRev = 1

\* the correlator alone, in each revision of lib/Build.ts
SpecCorr == InitBuildRev1 /\ [][NextCorr]_vars

\* executeBuild alone, in each revision of executeBuild.ts
SpecBuild == InitBuild /\ [][NextBuild]_vars

\* the registrations of one Build goal, in each revision of lib/Build.ts
SpecWith == InitBuildRev1 /\ [][NextWith]_vars

\* executeBuild with a spawnBuilder that reads a command file
SpecFile == InitBuild /\ [][NextFile]_vars

\* executeCheckBuild alone, in the revisions of lib/Build.ts that register it
SpecCheck == InitBuildRev1 /\ [][NextCheck]_vars

\* buildAwareBuildListener reads nothing of lib/Build.ts
SpecAware == InitRev1 /\ [][NextAware]_vars

\* all together; allocator and correlator share no state, and the properties
\* below are stated for SpecAlloc, SpecBuild and SpecCorr
Next == NextAlloc \/ NextBuild \/ NextCorr \/ NextWith \/ NextCheck \/ NextAware \/ NextFile

Spec == Init /\ [][Next]_vars

(***************************************************************************)
(* Claims                                                                  *)
(***************************************************************************)
\* the decimal string of k, written out for k < 100
Decimal(k) == IF k < 10 THEN <<k>> ELSE <<k \div 10, k % 10>>

\* allocations ever made for the repository: those persisted before the
\* behaviour (none for r1, eight for r2) and those of the behaviour
EverAllocated(r) == (IF r = "r1" THEN 0 ELSE 8) + count[r]

\* C1: when the allocations of a repository have not overlapped, the k-th
\* allocation ever made for it returned the decimal string of k (the first
\* one "1"), a number larger than every number returned before.
C1_SequentialAllocation ==
    \A r \in Repos :
        (~overlapped[r] /\ count[r] >= 1) =>
            /\ lastIssued[r] = Decimal(EverAllocated(r))
            /\ EverAllocated(r) > maxBefore[r]

\* C1 witness: three allocations in a row for each repository, the first of
\* r1 included and a two-digit number of r2
C1_Witness ==
    /\ ~overlapped["r1"] /\ count["r1"] = 3 /\ lastIssued["r1"] = <<3>>
    /\ ~overlapped["r2"] /\ count["r2"] = 3 /\ lastIssued["r2"] = <<1, 1>>

\* C2: under every interleaving, each number returned for a repository is
\* larger than every number returned before for it.
C2_StrictlyIncreasing ==
    \A r \in Repos :
        count[r] >= 1 => ToNumber(lastIssued[r]) > maxBefore[r]

\* what the query of execution e read, as a number
ReadValue(e) ==
    IF Len(queryResult[e]) = 1 THEN ToNumber(queryResult[e][1].identifier) ELSE 0

\* two executions of one repository that queried before either persisted,
\* with no allocation of the repository between their queries
Raced(e1, e2) ==
    /\ e1 # e2
    /\ pc[e1] = "allocated" /\ pc[e2] = "allocated"
    /\ RepoOf(goalOf[e1]) = RepoOf(goalOf[e2])
    /\ qCount[e1] = qCount[e2]

\* C3: two executions of one repository that both query before either
\* persists are handed the same build number; when only these two have
\* persisted since, the persisted identifier is that number: one more than
\* the value they read, not two.
C3_RaceSameNumber ==
    \A e1, e2 \in Execs :
        Raced(e1, e2) =>
            /\ buildNumber[e1] = buildNumber[e2]
            /\ ToNumber(buildNumber[e1]) = ReadValue(e1) + 1
            /\ count[RepoOf(goalOf[e1])] = qCount[e1] + 2 =>
                   idStore[RepoOf(goalOf[e1])] =
                       <<[identifier |-> buildNumber[e1], repo |-> RepoOf(goalOf[e1])]>>

\* C3 witness: executions 1 and 2 raced on r1, both hold "1" and the store
\* holds "1" after two allocations
C3_Witness ==
    /\ Raced(1, 2)
    /\ RepoOf(goalOf[1]) = "r1"
    /\ buildNumber[1] = <<1>> /\ buildNumber[2] = <<1>>
    /\ count["r1"] = 2
    /\ idStore["r1"] = <<[identifier |-> <<1>>, repo |-> "r1"]>>

\* the goal state the mapping table of the status gives
TableState(status) ==
    IF status = "passed" THEN "success"
    ELSE IF status \in {"broken", "failed", "canceled"} THEN "failure"
    ELSE "in_process"

\* a goal instance fulfilled by the direct executor
IsDirect(goal) == goal # NoGoal /\ goal.fulfillment.goalExecutor = "executeBuild"
\* a goal instance fulfilled by an external tool
IsExternal(goal) == goal # NoGoal /\ goal.fulfillment.goalExecutor # "executeBuild"

\* the build-log links of a goal instance
BuildLogLinks(goal) ==
    {goal.externalUrls[i].url : i \in {j \in 1..Len(goal.externalUrls) :
                                          goal.externalUrls[j].label = "Build Log"}}

\* C4: a notification for a commit whose goal instance has a fulfillment
\* method that is neither side-effect nor other (a goal of the direct
\* executor) changes no goal instance.
C4_DirectGoalUntouched ==
    [][\A sha \in Shas :
          (/\ lastDone' # None
           /\ lastDone'.n.sha = sha
           /\ IsDirect(goals[sha])
           /\ goals[sha].fulfillment.method \notin {"side-effect", "other"})
          => goals' = goals]_vars

\* C5: a notification for a commit without a goal instance is answered with
\* Success and changes no goal instance.
C5_NoGoalIsSuccess ==
    [][(lastDone' # None /\ goals[lastDone'.n.sha] = NoGoal)
       => (lastDone'.result = "Success" /\ goals' = goals)]_vars

\* C6: the status mapping is the table: passed -> success; broken, failed,
\* canceled -> failure; every other status, "error" and the absent one
\* included -> in_process; and the state an update of the correlator writes
\* is the one the table gives for the notification's status.
C6_StatusMapping ==
    /\ \A status \in Statuses :
          /\ buildStatusToSdmGoalState(status) = TableState(status)
          /\ buildStatusToSdmGoalStateRev3(status) = TableState(status)
    /\ (lastDone # None /\ lastDone.updated) =>
          goals[lastDone.n.sha].state = TableState(lastDone.n.status)

\* C6 witness: an update for a notification with status "error" left the goal
\* in_process
C6_Witness ==
    /\ lastDone # None
    /\ lastDone.updated
    /\ lastDone.n.status = "error"
    /\ goals[lastDone.n.sha].state = "in_process"

\* C7: after the notifications of the commit of an externally fulfilled goal
\* have been handled one after another, the goal's state is the mapping of
\* the last one's status.
C7_LastNotificationWins ==
    (lastDone # None /\ IsExternal(goals[lastDone.n.sha])) =>
        goals[lastDone.n.sha].state = TableState(lastDone.n.status)

\* C8: a goal instance in a terminal state (success or failure) is never
\* moved to a different state.
C8_TerminalIsFinal ==
    [][\A sha \in Shas :
          (goals[sha] # NoGoal /\ goals[sha].state \in {"success", "failure"})
          => goals'[sha].state = goals[sha].state]_vars

\* C9: the second handling of a notification that has just been handled with
\* Success for an externally fulfilled goal returns Success and leaves the
\* goal's state, description and build-log links as the first left them.
C9_SecondHandlingIsNoOp ==
    [][(/\ lastDone # None
        /\ lastDone.result = "Success"
        /\ lastDone' # None
        /\ lastDone'.n = lastDone.n
        /\ IsExternal(goals[lastDone.n.sha]))
       => /\ lastDone'.result = "Success"
          /\ goals'[lastDone.n.sha].state = goals[lastDone.n.sha].state
          /\ goals'[lastDone.n.sha].description = goals[lastDone.n.sha].description
          /\ BuildLogLinks(goals'[lastDone.n.sha]) = BuildLogLinks(goals[lastDone.n.sha])
          /\ goals'[lastDone.n.sha].url = goals[lastDone.n.sha].url]_vars

\* C10: a build listener that fails does not prevent the update: the
\* externally fulfilled goal is in the state mapped from the notification.
C10_ListenerFailureDoesNotBlock ==
    (/\ lastDone # None
     /\ lastDone.listenerFailed
     /\ IsExternal(goals[lastDone.n.sha])
     /\ (rev = 2 => lastDone.n.provider # "sdm"))
    => /\ lastDone.updated
       /\ goals[lastDone.n.sha].state = TableState(lastDone.n.status)

(***************************************************************************)
(* executeBuild: the latest execution that ended                           *)
(***************************************************************************)
\* positions in the log of the calls of one kind
StepsOf(kind) ==
    {i \in 1..Len(lastBuild.log) : lastBuild.log[i].kind = kind}

\* positions of the build events of one status handed to postWebhook
PostsOf(status) ==
    {i \in StepsOf("postWebhook") : lastBuild.log[i].data.status = status}

\* positions of the calls of createBuildTag: its first call reads sdm.build.tag
CreateBuildTagCalls ==
    {i \in StepsOf("configurationValue") : lastBuild.log[i].data.key = "sdm.build.tag"}

\* what the builder did at position i of the log
OutcomeAt(i) == lastBuild.log[i].data.outcome

\* C11: when the builder throws, a failed event with the allocated number is
\* posted, the caller gets failure(err) of the error thrown, no passed event
\* is posted and no tag is created.
C11_SetupFailureReported ==
    lastBuild.ended =>
        \A i \in StepsOf("builder") :
            OutcomeAt(i).threw =>
                /\ \E j \in PostsOf("failed") :
                      lastBuild.log[j].data.number = ToNumber(lastBuild.buildNumber)
                /\ lastBuild.result = failure(OutcomeAt(i).err)
                /\ PostsOf("passed") = {}
                /\ StepsOf("createTag") = {}

\* C12: when the builder returns a result whose error is set, a failed event
\* is posted, the caller gets {code: 1, message: buildResult.message}, no
\* passed event is posted and createBuildTag is not called.
C12_ErrorResultReported ==
    lastBuild.ended =>
        \A i \in StepsOf("builder") :
            (/\ ~OutcomeAt(i).threw
             /\ OutcomeAt(i).rb.buildResult.defined
             /\ OutcomeAt(i).rb.buildResult.error # "") =>
                /\ PostsOf("failed") # {}
                /\ lastBuild.result =
                      [kind |-> "returned", code |-> 1,
                       message |-> OutcomeAt(i).rb.buildResult.message]
                /\ PostsOf("passed") = {}
                /\ CreateBuildTagCalls = {}

\* C12 witness: a builder returned "compile failed" and the caller got code 1
C12_Witness ==
    /\ lastBuild.ended
    /\ \E i \in StepsOf("builder") :
          /\ ~OutcomeAt(i).threw
          /\ OutcomeAt(i).rb.buildResult.error = "compile failed"
    /\ PostsOf("failed") # {}
    /\ lastBuild.result.code = 1
    /\ lastBuild.result.message = <<"compile failed">>

\* C13: with spawnBuilder as the builder, when a command finishes with an
\* error, started and then failed are posted, the caller gets a result with
\* code 1, and no tag is created.
C13_CommandFailureEndToEnd ==
    lastBuild.ended =>
        \A i \in StepsOf("builder") :
            (OutcomeAt(i).via = "spawnBuilder" /\ OutcomeAt(i).threw) =>
                /\ \E st \in PostsOf("started"), f \in PostsOf("failed") : st < f
                /\ lastBuild.result.kind = "returned"
                /\ lastBuild.result.code = 1
                /\ StepsOf("createTag") = {}

\* positions of the calls that attempt the tag
TagAttempts ==
    CreateBuildTagCalls \cup StepsOf("isInLocalMode")
        \cup StepsOf("readSdmVersion") \cup StepsOf("createTag")

\* C14: when the builder returns a result without error, a passed event is
\* posted, the caller gets Success, no failed event is posted, and every step
\* of the tag creation comes after a passed event whose post resolved.
C14_PassedThenTag ==
    lastBuild.ended =>
        \A i \in StepsOf("builder") :
            (/\ ~OutcomeAt(i).threw
             /\ OutcomeAt(i).rb.buildResult.defined
             /\ OutcomeAt(i).rb.buildResult.error = "") =>
                /\ PostsOf("passed") # {}
                /\ lastBuild.result.kind = "returned"
                /\ lastBuild.result.code = 0
                /\ PostsOf("failed") = {}
                /\ \A t \in TagAttempts :
                      \E p \in PostsOf("passed") : p < t /\ lastBuild.log[p].ok

\* C14 witness: a build without error, passed posted, then the tag created
C14_Witness ==
    /\ lastBuild.ended
    /\ lastBuild.result.kind = "returned"
    /\ lastBuild.result.code = 0
    /\ \E p \in PostsOf("passed"), t \in StepsOf("createTag") :
          p < t /\ lastBuild.log[p].ok /\ lastBuild.log[t].ok

\* positions of the post-build side effects that threw
SideEffectsThrown ==
    {i \in StepsOf("readSdmVersion") \cup StepsOf("createTag") \cup StepsOf("linkArtifact") :
        ~lastBuild.log[i].ok}

\* C15: when the version lookup, the tag creation or the artifact link throws
\* after a successful build, the caller still gets Success and no failed
\* event is posted.
C15_SideEffectFailureSwallowed ==
    (lastBuild.ended /\ SideEffectsThrown # {}) =>
        /\ lastBuild.result.kind = "returned"
        /\ lastBuild.result.code = 0
        /\ PostsOf("passed") # {}
        /\ PostsOf("failed") = {}

\* C15 witness: the tag was created, linkArtifact threw, the caller got Success
C15_Witness ==
    /\ lastBuild.ended
    /\ StepsOf("linkArtifact") # {}
    /\ \E t \in StepsOf("createTag") : lastBuild.log[t].ok
    /\ lastBuild.result.kind = "returned"
    /\ lastBuild.result.code = 0

\* C16: when the builder has returned and reading its result throws, a failed
\* event is posted and the caller gets failure(err) of that exception: a
\* returned result, not a rejection.
C16_InterpretationFailureCaught ==
    lastBuild.ended =>
        \A i \in StepsOf("builder") :
            (~OutcomeAt(i).threw /\ ~OutcomeAt(i).rb.buildResult.defined) =>
                /\ PostsOf("failed") # {}
                /\ PostsOf("passed") = {}
                /\ lastBuild.result =
                      [kind |-> "returned", code |-> 1, message |-> TypeErrorOfUndefined]

\* C16 witness: spawnBuilder ran no command and returned no result; the
\* caller got a failure
C16_Witness ==
    /\ lastBuild.ended
    /\ \E i \in StepsOf("builder") :
          /\ OutcomeAt(i).via = "spawnBuilder"
          /\ ~OutcomeAt(i).threw
          /\ OutcomeAt(i).ran = 0
    /\ PostsOf("failed") # {}
    /\ lastBuild.result.kind = "returned"
    /\ lastBuild.result.code = 1

\* C17: an execution whose allocation failed, in the query or in the send,
\* calls no builder and posts no build event; the builder is only ever called
\* with the number allocated to the execution.
C17_NoBuildWithoutNumber ==
    lastBuild.ended =>
        /\ ~lastBuild.allocated =>
              StepsOf("builder") = {} /\ StepsOf("postWebhook") = {}
        /\ \A i \in StepsOf("builder") :
              /\ lastBuild.allocated
              /\ lastBuild.buildNumber # <<>>
              /\ lastBuild.log[i].data.buildNo = lastBuild.buildNumber

\* C17 witness: the send of the bumped identifier rejected
C17_Witness ==
    /\ lastBuild.ended
    /\ ~lastBuild.allocated
    /\ lastBuild.result.message = SendError
    /\ lastBuild.log = <<>>

\* C18: when the allocation fails, executeBuild posts a failed event and
\* returns a result with a non-zero code.
C18_AllocationFailureReported ==
    (lastBuild.ended /\ ~lastBuild.allocated) =>
        /\ PostsOf("failed") # {}
        /\ lastBuild.result.kind = "returned"
        /\ lastBuild.result.code # 0

\* C19: an allocation whose query returned no record, or more than one,
\* persists the identifier "1" for the repository and returns "1".
C19_RestartFromZero ==
    [][\A e \in Execs :
         (/\ pc[e] = "queried"
          /\ pc'[e] = "allocated"
          /\ Len(queryResult[e]) # 1) =>
            /\ buildNumber'[e] = <<1>>
            /\ idStore'[RepoOf(goalOf[e])] =
                  <<[identifier |-> <<1>>, repo |-> RepoOf(goalOf[e])]>>]_vars

\* C19 witness: the query returned two records and the execution got "1"
C19_Witness ==
    \E e \in Execs :
        /\ pc[e] = "allocated"
        /\ Len(queryResult[e]) = 2
        /\ buildNumber[e] = <<1>>
        /\ idStore[RepoOf(goalOf[e])] =
              <<[identifier |-> <<1>>, repo |-> RepoOf(goalOf[e])]>>

\* C20: the tag created is <version>+build.<number>, of the version stored
\* for the commit and the number allocated to the execution, and it points
\* at the goal's commit.
C20_TagName ==
    lastBuild.ended =>
        \A t \in StepsOf("createTag") :
            /\ \E v \in StepsOf("readSdmVersion") :
                  lastBuild.log[t].data.tag =
                      <<lastBuild.log[v].data.version, "+build.", lastBuild.buildNumber>>
            /\ lastBuild.log[t].data.sha = lastBuild.sha

\* the step of one kind that follows position i within the same call of
\* createBuildTag, 0 when the call went no further
NextStepOf(kind, i, offset) ==
    IF /\ i + offset <= Len(lastBuild.log)
       /\ lastBuild.log[i + offset].kind = kind
    THEN i + offset ELSE 0

\* C21: createBuildTag creates a tag only when sdm.build.tag is enabled
\* (enabled when unset), the SDM is not in local mode and a version exists for
\* the commit; when these hold the tag is attempted; without a version no
\* tag is attempted, nothing is thrown by the tag creation and the caller
\* gets Success.
C21_TagOnlyWhenEnabled ==
    lastBuild.ended =>
        \A c \in CreateBuildTagCalls :
            LET cfg == lastBuild.log[c]
                l == NextStepOf("isInLocalMode", c, 1)
                v == NextStepOf("readSdmVersion", c, 2)
                t == NextStepOf("createTag", c, 3)
                enabled == cfg.data.setting # "false"
                versioned == /\ v # 0
                             /\ lastBuild.log[v].ok
                             /\ lastBuild.log[v].data.version # ""
            IN /\ cfg.data.value = enabled
               /\ (l # 0) = enabled
               /\ (v # 0) = (l # 0 /\ ~lastBuild.log[l].data.value)
               /\ (t # 0) = versioned
               /\ StepsOf("createTag") \subseteq {t}
               /\ (v # 0 /\ lastBuild.log[v].ok /\ lastBuild.log[v].data.version = "") =>
                      /\ StepsOf("createTag") = {}
                      /\ lastBuild.result.kind = "returned"
                      /\ lastBuild.result.code = 0
                      /\ PostsOf("failed") = {}

\* C21 witness: sdm.build.tag is unset, the SDM is not local, a version
\* exists, and the tag was created
C21_Witness ==
    /\ lastBuild.ended
    /\ \E c \in CreateBuildTagCalls, t \in StepsOf("createTag") :
          /\ lastBuild.log[c].data.setting = "unset"
          /\ t = c + 3
          /\ lastBuild.log[t].ok

\* C21 witness of the other case: no version for the commit, no tag, Success
C21_WitnessNoVersion ==
    /\ lastBuild.ended
    /\ \E v \in StepsOf("readSdmVersion") :
          lastBuild.log[v].ok /\ lastBuild.log[v].data.version = ""
    /\ StepsOf("createTag") = {}
    /\ lastBuild.result = Success

\* the calls of spawnBuilder in the log
SpawnBuilderCalls ==
    {i \in StepsOf("builder") : OutcomeAt(i).via = "spawnBuilder"}

\* C25: spawnBuilder executes the commands in the order of the list, one
\* after another, and none after the first command whose result has an error.
C25_CommandsInOrderUntilError ==
    lastBuild.ended =>
        \A i \in SpawnBuilderCalls :
            LET cs == OutcomeAt(i).commands
            IN /\ Len(cs) <= OutcomeAt(i).given
               /\ \A k \in 1..Len(cs) : cs[k].command = k
               /\ \A k \in 1..Len(cs) : (k < Len(cs)) => cs[k].result.error = ""
               /\ (Len(cs) < OutcomeAt(i).given) => cs[Len(cs)].result.error # ""
               /\ OutcomeAt(i).threw = (\E k \in 1..Len(cs) : cs[k].result.error # "")

\* C25 witness: of two commands the first failed and the second never ran
C25_Witness ==
    /\ lastBuild.ended
    /\ \E i \in SpawnBuilderCalls :
          /\ OutcomeAt(i).given = 2
          /\ Len(OutcomeAt(i).commands) = 1
          /\ OutcomeAt(i).threw

\* C28: when a command of spawnBuilder fails, the message of the failure
\* result is exactly the error message of the failed command.
C28_FailureMessageIsCommandError ==
    lastBuild.ended =>
        \A i \in SpawnBuilderCalls :
            (OutcomeAt(i).threw /\ lastBuild.result.kind = "returned") =>
                LET cs == OutcomeAt(i).commands
                IN lastBuild.result.message = <<cs[Len(cs)].result.error>>

\* what the code does instead: the message is the command's error message
\* behind the prefix "Build failure: "
C28_FailureMessagePrefixed ==
    lastBuild.ended =>
        \A i \in SpawnBuilderCalls :
            (OutcomeAt(i).threw /\ lastBuild.result.kind = "returned") =>
                LET cs == OutcomeAt(i).commands
                IN lastBuild.result.message =
                       <<"Build failure: ", cs[Len(cs)].result.error>>

\* C28 case: a command failed and the caller got a failure result
C28_Witness ==
    /\ lastBuild.ended
    /\ lastBuild.result.kind = "returned"
    /\ lastBuild.result.code = 1
    /\ PostsOf("failed") # {}
    /\ \A p \in StepsOf("postWebhook") : lastBuild.log[p].ok
    /\ \E i \in SpawnBuilderCalls : OutcomeAt(i).threw

\* the last notification handled was a failure notification for an
\* externally fulfilled goal of revision 3, and every listener resolved
ExternalFailureHandled ==
    /\ lastDone # None
    /\ rev = 3
    /\ IsExternal(goals[lastDone.n.sha])
    /\ ~lastDone.listenerFailed
    /\ TableState(lastDone.n.status) = "failure"

\* C22: a notification for an externally fulfilled goal whose status maps to
\* failure (broken, failed or canceled) and that carries a buildUrl has its
\* log fetched and reported, unless the fetch itself fails.
C22_FailureLogReported ==
    (ExternalFailureHandled /\ lastDone.n.buildUrl # "") =>
        \/ lastDone.report = "log"
        \/ lastDone.result = "Rejected"

\* what the code does instead: the log is fetched and reported for the status
\* "failed" only, never for "broken" or "canceled"
C22_LogReportedOnlyForFailed ==
    (ExternalFailureHandled /\ lastDone.n.buildUrl # "") =>
        IF lastDone.n.status = "failed"
        THEN lastDone.report = "log" \/ lastDone.result = "Rejected"
        ELSE lastDone.report = "none" /\ lastDone.result = "Success"

\* C22 case: the status "failed" with a buildUrl, the log reported
C22_Witness ==
    /\ ExternalFailureHandled
    /\ lastDone.n.status = "failed"
    /\ lastDone.n.buildUrl # ""
    /\ lastDone.report = "log"

\* C23: a failure notification without a buildUrl for an externally fulfilled
\* goal is reported as having no build log.
C23_NoLogAvailableReported ==
    (ExternalFailureHandled /\ lastDone.n.buildUrl = "") =>
        lastDone.report = "no build log"

\* what the code does instead: without a buildUrl nothing is fetched and
\* nothing is reported
C23_NothingReportedWithoutUrl ==
    (ExternalFailureHandled /\ lastDone.n.buildUrl = "") =>
        /\ lastDone.report = "none"
        /\ lastDone.result = "Success"
        /\ lastDone.updated

\* C23 case: the status "failed" without a buildUrl, the goal updated
C23_Witness ==
    /\ ExternalFailureHandled
    /\ lastDone.n.status = "failed"
    /\ lastDone.n.buildUrl = ""
    /\ goals[lastDone.n.sha].state = "failure"

\* a step in which the handler updates the goal of the notification's commit,
\* an externally fulfilled one
ExternalGoalUpdated ==
    /\ lastDone' # None
    /\ lastDone' # lastDone \/ goals' # goals
    /\ lastDone'.updated
    /\ IsExternal(goals[lastDone'.n.sha])

\* the link to the build log that the update adds
BuildLogLink(url) == [label |-> "Build Log", url |-> url]

\* C26: the update of an externally fulfilled goal sets the state to the
\* mapping of the notification's status, the description to the goal's
\* description for that state, and adds one external URL labelled
\* "Build Log" that is the notification's buildUrl.
C26_UpdateContents ==
    [][ExternalGoalUpdated =>
          LET n == lastDone'.n
              before == goals[n.sha]
              after == goals'[n.sha]
          IN /\ after.state = TableState(n.status)
             /\ after.description = descriptionFromState(BuildGoal, after.state)
             /\ after.externalUrls = before.externalUrls \o <<BuildLogLink(n.buildUrl)>>]_vars

\* what the code does: state and description always agree; the link is an
\* external URL labelled "Build Log" in revisions 1 and 2, and the goal's url
\* with no external URL in revision 3
C26_UpdateContentsByRevision ==
    [][ExternalGoalUpdated =>
          LET n == lastDone'.n
              before == goals[n.sha]
              after == goals'[n.sha]
          IN /\ after.state = TableState(n.status)
             /\ after.description = descriptionFromState(BuildGoal, after.state)
             /\ IF rev = 3
                THEN /\ after.externalUrls = before.externalUrls
                     /\ n.buildUrl # "" => after.url = n.buildUrl
                ELSE after.externalUrls =
                         before.externalUrls \o <<BuildLogLink(n.buildUrl)>>]_vars

\* C26 case: an externally fulfilled goal updated with the link to the log
C26_Witness ==
    /\ lastDone # None
    /\ lastDone.updated
    /\ IsExternal(goals[lastDone.n.sha])
    /\ lastDone.n.buildUrl # ""
    /\ goals[lastDone.n.sha].externalUrls = <<BuildLogLink(lastDone.n.buildUrl)>>

\* C30: a notification whose provider is "sdm" never makes the handler update
\* a goal, and the handler returns Success when the listeners resolve.
C30_OwnEventsIgnored ==
    (lastDone # None /\ lastDone.n.provider = "sdm") =>
        /\ ~lastDone.updated
        /\ ~lastDone.listenerFailed => lastDone.result = "Success"

\* what the code does: only revision 2 looks at the provider
C30_ProviderGuardOfRevision2 ==
    (lastDone # None /\ lastDone.n.provider = "sdm" /\ rev = 2) =>
        /\ ~lastDone.updated
        /\ ~lastDone.listenerFailed => lastDone.result = "Success"

\* C30 case: in revision 1 the goal that executeBuild fulfils is updated by
\* a notification of provider "sdm"
C30_Witness ==
    /\ lastDone # None
    /\ rev = 1
    /\ lastDone.n.provider = "sdm"
    /\ IsDirect(goals[lastDone.n.sha])
    /\ lastDone.updated

\* C29: an allocation for a repository reads and writes the identifier
\* record of that repository only: the query returns its record, the
\* persisted records of every other repository are unchanged, and the number
\* returned is one more than the number read, whatever the commit, the
\* branch or the goal instance.
C29_AllocationScopedToRepository ==
    [][\A e \in Execs :
          LET r == RepoOf(goalOf'[e])
          IN /\ (pc[e] # "queried" /\ pc'[e] = "queried") =>
                   /\ queryResult'[e] = idStore[r]
                   /\ \A i \in 1..Len(queryResult'[e]) : queryResult'[e][i].repo = r
                   /\ idStore' = idStore
             /\ (pc[e] = "queried" /\ pc'[e] = "allocated") =>
                   /\ \A q \in Repos \ {r} : idStore'[q] = idStore[q]
                   /\ idStore'[r] = <<[identifier |-> buildNumber'[e], repo |-> r]>>
                   /\ buildNumber'[e] = NumberToString(ReadValue(e) + 1)]_vars

\* C29 witness: two commits of r1 on different branches were given the
\* numbers 1 and 2 one after the other, and the record of r2 is untouched
C29_Witness ==
    /\ pc[1] = "allocated" /\ goalOf[1] = "a" /\ buildNumber[1] = <<1>>
    /\ pc[2] = "allocated" /\ goalOf[2] = "b" /\ buildNumber[2] = <<2>>
    /\ BranchOf("a") # BranchOf("b")
    /\ idStore["r2"] = InitialIdentifiers("r2")
    /\ idStore["r1"] = <<[identifier |-> <<2>>, repo |-> "r1"]>>

\* the order of the steps in the log of an execution that ended
StepsInOrder(build) ==
    LET log == build.log
        posts(status) == {i \in 1..Len(log) : /\ log[i].kind = "postWebhook"
                                               /\ log[i].data.status = status}
        builds == {i \in 1..Len(log) : log[i].kind = "builder"}
    IN /\ posts("started") = {1}
       /\ log[1].data.number = ToNumber(build.buildNumber)
       /\ \A b \in builds : b = 2 /\ log[1].ok
       /\ \A p \in posts("passed") :
             \E b \in builds : b < p /\ ~log[b].data.outcome.threw
       /\ \E f \in posts("passed") \cup posts("failed") :
             /\ f > 1
             /\ \A b \in builds : b < f

\* C27: an execution that gets a build number goes on only after the number
\* has been persisted; then the started event is published, then the builder
\* is invoked, then a passed or failed event is published. The builder is
\* never invoked before the started event, and passed is never published
\* before the builder has returned.
C27_OrderOfSteps ==
    [][(lastBuild' # lastBuild /\ lastBuild'.allocated) =>
          LET e == lastBuild'.exec
              r == RepoOf(lastBuild'.sha)
          IN /\ pc[e] = "allocated"
             /\ lastBuild'.buildNumber = buildNumber[e]
             /\ idStore[r] = <<[identifier |-> buildNumber[e], repo |-> r]>>
             /\ StepsInOrder(lastBuild')]_vars

\* C27 witness: number 4 persisted, started, the builder, then passed
C27_Witness ==
    /\ lastBuild.ended
    /\ lastBuild.allocated
    /\ lastBuild.buildNumber = <<4>>
    /\ Len(lastBuild.log) >= 3
    /\ lastBuild.log[1].kind = "postWebhook" /\ lastBuild.log[1].data.status = "started"
    /\ lastBuild.log[2].kind = "builder"
    /\ lastBuild.log[3].kind = "postWebhook" /\ lastBuild.log[3].data.status = "passed"
    /\ lastBuild.log[3].data.number = 4

\* some fulfillment added so far is an external one
HasExternalFulfillment ==
    \E i \in 1..Len(fulfillments) : fulfillments[i].goalExecutor # "executeBuild"

\* C24: once a registration without a builder has been added with
\* Build.with, the definition's retryFeasible is false, and stays false under
\* every later call of with.
C24_RetryInfeasibleOnceExternal ==
    HasExternalFulfillment => ~definition.retryFeasible

\* what the code does: revision 1 clears retryFeasible, revisions 2 and 3
\* leave it as the constructor set it
C24_RetryFeasibleByRevision ==
    definition.retryFeasible = ~(rev = 1 /\ HasExternalFulfillment)

\* C24 case: an external registration followed by a builder registration
C24_Witness ==
    /\ Len(fulfillments) >= 2
    /\ fulfillments[1].goalExecutor # "executeBuild"
    /\ fulfillments[2].goalExecutor = "executeBuild"
    /\ rev = 1
    /\ ~definition.retryFeasible

\* the concluding events of the execution: passed and failed
ConcludingPosts == PostsOf("passed") \cup PostsOf("failed")

\* C33: an execution of executeBuild publishes at most one concluding event:
\* never both passed and failed, never two failed events.
C33_AtMostOneConcludingEvent ==
    lastBuild.ended => Cardinality(ConcludingPosts) <= 1

\* C33 witness: the passed post rejected, and no failed event followed it
C33_Witness ==
    /\ lastBuild.ended
    /\ \E p \in PostsOf("passed") : ~lastBuild.log[p].ok
    /\ PostsOf("failed") = {}
    /\ Cardinality(ConcludingPosts) = 1

\* C34: executeBuild returns Success only when a passed event was published
\* and a failure result only when a failed event was published, also when
\* the post of the concluding event is rejected.
C34_ResultAgreesWithEvent ==
    (lastBuild.ended /\ lastBuild.result.kind = "returned") =>
        IF lastBuild.result.code = 0
        THEN PostsOf("passed") # {} /\ PostsOf("failed") = {}
        ELSE PostsOf("failed") # {} /\ PostsOf("passed") = {}

\* C34 witness: the post of the failed event was rejected inside onExit and
\* the caller got a failure result
C34_Witness ==
    /\ lastBuild.ended
    /\ lastBuild.result.kind = "returned"
    /\ lastBuild.result.code = 1
    /\ \E f \in PostsOf("failed") : ~lastBuild.log[f].ok

\* the post of the started event was rejected
StartedRejected ==
    /\ lastBuild.ended
    /\ lastBuild.allocated
    /\ ~lastBuild.log[1].ok

\* C35: when the post of the started event fails the builder is not
\* invoked, a failed event is published and a failure result is returned.
C35_StartedFailure ==
    StartedRejected =>
        /\ StepsOf("builder") = {}
        /\ PostsOf("failed") # {}
        /\ lastBuild.result.kind = "returned"
        /\ lastBuild.result.code = 1

\* what the code does: the builder is not invoked and the failed event is
\* posted; the failure result is returned when that post resolves, and
\* executeBuild rejects when it does not
C35_StartedFailureThenPost ==
    StartedRejected =>
        /\ StepsOf("builder") = {}
        /\ PostsOf("failed") = {2}
        /\ IF lastBuild.log[2].ok
           THEN lastBuild.result = failure(WebhookError)
           ELSE lastBuild.result.kind = "rejected"

\* C35 case: the started post rejected, the failed post resolved
C35_Witness ==
    /\ StartedRejected
    /\ lastBuild.result = failure(WebhookError)

\* C36: spawnBuilder with an empty list of commands runs no command, and
\* executeBuild publishes failed and not passed, returns a failure result
\* and creates no tag.
C36_EmptyCommandList ==
    lastBuild.ended =>
        \A i \in SpawnBuilderCalls :
            (OutcomeAt(i).given = 0 /\ ~OutcomeAt(i).threw) =>
                /\ OutcomeAt(i).commands = <<>>
                /\ PostsOf("failed") # {}
                /\ PostsOf("passed") = {}
                /\ lastBuild.result.kind = "returned"
                /\ lastBuild.result.code = 1
                /\ CreateBuildTagCalls = {}
                /\ StepsOf("createTag") = {}

\* C36 witness: no command given, failed posted, a failure result
C36_Witness ==
    /\ lastBuild.ended
    /\ \E i \in SpawnBuilderCalls :
          OutcomeAt(i).given = 0 /\ OutcomeAt(i).commands = <<>>
    /\ lastBuild.result = failure(TypeErrorOfUndefined)

\* C38: an allocation persists exactly one record, with the number returned
\* and the repository of the goal, before the execution goes on; every build
\* event of the execution carries that number and the provider "sdm", and an
\* execution without a number posts no event.
C38_OneRecordOneNumber ==
    [][\A e \in BuildExecs :
          LET r == RepoOf(goalOf[e])
          IN /\ (pc[e] = "queried" /\ pc'[e] = "allocated") =>
                   /\ Len(idStore'[r]) = 1
                   /\ idStore'[r][1].identifier = buildNumber'[e]
                   /\ idStore'[r][1].repo = r
                   /\ buildNumber'[e] # <<>>
             /\ (lastBuild' # lastBuild /\ lastBuild'.exec = e) =>
                   IF lastBuild'.allocated
                   THEN /\ idStore[r] = <<[identifier |-> lastBuild'.buildNumber,
                                            repo |-> r]>>
                        /\ \A i \in 1..Len(lastBuild'.log) :
                              lastBuild'.log[i].kind = "postWebhook" =>
                                  /\ lastBuild'.log[i].data.number =
                                         ToNumber(lastBuild'.buildNumber)
                                  /\ lastBuild'.log[i].data.provider = "sdm"
                                  /\ lastBuild'.log[i].data.commit = goalOf[e]
                   ELSE lastBuild'.log = <<>>]_vars

\* C38 witness: record "4" persisted, started and passed carry 4
C38_Witness ==
    /\ lastBuild.ended
    /\ lastBuild.allocated
    /\ idStore["r1"] = <<[identifier |-> <<4>>, repo |-> "r1"]>>
    /\ \E s \in PostsOf("started"), p \in PostsOf("passed") :
          /\ lastBuild.log[s].data.number = 4
          /\ lastBuild.log[p].data.number = 4
          /\ lastBuild.log[p].data.provider = "sdm"

\* C39: an execution whose allocation succeeded ends with a result value
\* returned to its caller, never with a rejection.
C39_ReturnsAResult ==
    (lastBuild.ended /\ lastBuild.allocated) => lastBuild.result.kind = "returned"

\* what the code does: it rejects exactly when the failed event of the outer
\* catch cannot be posted
C39_RejectsOnDoubleFault ==
    (lastBuild.ended /\ lastBuild.allocated) =>
        (lastBuild.result.kind = "rejected") =
            /\ \/ ~lastBuild.log[1].ok
               \/ \E b \in StepsOf("builder") : OutcomeAt(b).threw
            /\ \E f \in PostsOf("failed") : ~lastBuild.log[f].ok

\* C39 case: the builder threw and the failed event could not be posted
C39_Witness ==
    /\ lastBuild.ended
    /\ lastBuild.allocated
    /\ \E b \in StepsOf("builder") : OutcomeAt(b).threw
    /\ lastBuild.result = Rejected(WebhookError)

\* C31: executeCheckBuild returns in_process and no URL when there is no
\* build on the commit; when there is one it returns the state mapped from
\* the first build's status and one "Build Log" URL with that build's
\* buildUrl, so that a first build already finished gives a terminal state.
C31_CheckBuildResult ==
    lastCheck.done =>
        IF lastCheck.builds = <<>>
        THEN /\ lastCheck.result.state = "in_process"
             /\ lastCheck.result.externalUrls = <<>>
        ELSE LET first == lastCheck.builds[1]
             IN /\ lastCheck.result.state = TableState(first.status)
                /\ lastCheck.result.externalUrls = <<BuildLogLink(first.buildUrl)>>
                /\ first.status \in {"passed", "failed", "broken", "canceled"} =>
                       lastCheck.result.state \in {"success", "failure"}

\* C31 witness: the first build on the commit has passed, a later one has
\* only started, and the result is success with the first build's log
C31_Witness ==
    /\ lastCheck.done
    /\ Len(lastCheck.builds) = 2
    /\ lastCheck.builds[1].status = "passed"
    /\ lastCheck.builds[1].buildUrl # ""
    /\ lastCheck.builds[2].status = "started"
    /\ lastCheck.result.state = "success"
    /\ Len(lastCheck.result.externalUrls) = 1

\* what the listener raised for the latest build
Raised(kind) ==
    {i \in 1..Len(listened.raised) : listened.raised[i].kind = kind}

\* the commit message of the latest build has the build-aware marker
Marked ==
    \E i \in 1..Len(listened.build.message) :
        listened.build.message[i] = BuildAwareMarker

\* C40: buildAwareBuildListener raises a pull request exactly when the
\* commit message has the marker and the status is passed, an issue exactly
\* when it has the marker and the status is failed or broken, and nothing
\* else in any case.
C40_BuildAwareListener ==
    listened.invoked =>
        /\ Cardinality(Raised("raisePullRequest")) =
               (IF Marked /\ listened.build.status = "passed" THEN 1 ELSE 0)
        /\ Cardinality(Raised("raiseIssue")) =
               (IF Marked /\ listened.build.status \in {"failed", "broken"}
                THEN 1 ELSE 0)
        /\ Len(listened.raised) =
               Cardinality(Raised("raisePullRequest")) + Cardinality(Raised("raiseIssue"))

\* C40 witness: a marked commit whose build broke, an issue raised
C40_Witness ==
    /\ listened.invoked
    /\ Marked
    /\ listened.build.status = "broken"
    /\ Raised("raiseIssue") = {1}

\* C40 witness of the other case: no marker, the build passed, nothing raised
C40_WitnessUnmarked ==
    /\ listened.invoked
    /\ ~Marked
    /\ listened.build.status = "passed"
    /\ listened.raised = <<>>

C32_WitnessUpdated ==
    /\ lastDone # None
    /\ lastDone.updated
    /\ ~lastDone.listenerFailed
    /\ \A l \in Listeners : lastDone.listeners[l].times = 1

\* the calls of a spawnBuilder that reads its commands from a file
FileBuilderCalls ==
    {i \in SpawnBuilderCalls : "file" \in DOMAIN OutcomeAt(i)}

\* the positions of the line breaks of a content, in increasing order, between
\* the position before its first character and the one after its last
Breaks(content) ==
    LET nl == {i \in 1..Len(content) : content[i] = "\n"}
        ordered == CHOOSE f \in [1..Cardinality(nl) -> nl] :
                       \A j, k \in 1..Cardinality(nl) : j < k => f[j] < f[k]
    IN <<0>> \o ordered \o <<Len(content) + 1>>

\* the lines of a content
LinesOf(content) ==
    [k \in 1..(Len(Breaks(content)) - 1) |->
        SubSeq(content, Breaks(content)[k] + 1, Breaks(content)[k + 1] - 1)]

IsCommandLine(l) == l # <<>> /\ l[1] # "#"

\* what the file gives: the commands are its command lines in file order
CommandsAreCommandLines(i) ==
    LET file == OutcomeAt(i).file
        cs == OutcomeAt(i).commands
        loaded == OutcomeAt(i).loaded
    IN file.present =>
          /\ loaded = SelectSeq(LinesOf(file.content), IsCommandLine)
          /\ Len(cs) <= Len(loaded)
          /\ \A k \in 1..Len(cs) : cs[k].command = k
          /\ ~OutcomeAt(i).threw => Len(cs) = Len(loaded)

\* C37: with a commandFile and no commands, when the file is absent no
\* command is run, a failed event is published and a failure result is
\* returned; when it is present the commands run are its lines that are not
\* empty and do not start with #, in file order.
C37_CommandFile ==
    lastBuild.ended =>
        \A i \in FileBuilderCalls :
            /\ ~OutcomeAt(i).file.present =>
                  /\ OutcomeAt(i).commands = <<>>
                  /\ PostsOf("failed") # {}
                  /\ PostsOf("passed") = {}
                  /\ lastBuild.result.kind = "returned"
                  /\ lastBuild.result.code = 1
            /\ CommandsAreCommandLines(i)

\* what the code does: without the file the failure result is returned
\* when the failed event of the outer catch can be posted, and executeBuild
\* rejects when it cannot
C37_CommandFileThenPost ==
    lastBuild.ended =>
        \A i \in FileBuilderCalls :
            /\ ~OutcomeAt(i).file.present =>
                  /\ OutcomeAt(i).commands = <<>>
                  /\ PostsOf("passed") = {}
                  /\ \E f \in PostsOf("failed") :
                        IF lastBuild.log[f].ok
                        THEN lastBuild.result = failure(NotIterable)
                        ELSE lastBuild.result.kind = "rejected"
            /\ CommandsAreCommandLines(i)

\* C37 case: a file of three lines of which one is a command, which ran
C37_Witness ==
    /\ lastBuild.ended
    /\ \E i \in FileBuilderCalls :
          /\ OutcomeAt(i).file.present
          /\ Len(LinesOf(OutcomeAt(i).file.content)) = 3
          /\ Len(OutcomeAt(i).loaded) = 1
          /\ Len(OutcomeAt(i).commands) = 1
    /\ lastBuild.result = Success

\* C37 case: the file is absent, the failed event posted, a failure result
C37_WitnessAbsent ==
    /\ lastBuild.ended
    /\ \E i \in FileBuilderCalls : ~OutcomeAt(i).file.present
    /\ lastBuild.result = failure(NotIterable)
====
